---- MODULE Spec2Model ----
(***************************************************************************)
(* Runtime coordination layer of the keyboard RGB control GUI              *)
(* (app/src/gui/mod.rs): the per-frame update of App, the hotkey listener  *)
(* thread, the GuiMessage channel, the custom effect state and the         *)
(* settings written at exit.                                               *)
(***************************************************************************)
EXTENDS Integers, Sequences, FiniteSets, TLC

\* ---------------------------------------------------------------- bounds
\* messages the channel may hold at once (the crossbeam channel is unbounded)
MaxChannel == 2
\* custom effects opened over one run (each gets a fresh identity)
MaxEffects == 1
\* widgets the user can act on within one frame
MaxUiEvents == 1
\* ticks without input looked at after a launch
MaxIdleTicks == 3

\* ------------------------------------------------------- program constants
\* for i in 0..4: the keyboard has four colour zones
NumZones == 4

\* ------------------------------------------------------------ value domains
Colors == {0, 1}
EffectKinds == {"Static", "Lightning"}
Messages == {"ShowWindow", "CycleProfiles", "Quit"}
WatchedKeys == {"AltGr", "MetaLeft"}
Keys == WatchedKeys \cup {"KeyA"}
KeyEvents == [event_type : {"KeyPress", "KeyRelease"}, key : Keys]

Zones(c) == [i \in 1..NumZones |-> c]
MkProfile(n, e, c) == [name |-> n, effect |-> e, rgb_zones |-> Zones(c)]

\* Profile::default()
DefaultProfile == MkProfile("Profile", "Static", 0)
\* Updates::default()
DefaultUpdates == [skip_version |-> FALSE, version_name |-> "None"]
\* Settings::default()
DefaultSettings == [profiles |-> <<>>, ui_state |-> DefaultProfile, updates |-> DefaultUpdates]

\* Effects::takes_color_array
takes_color_array(e) == e = "Static"

\* CustomEffectState
CeNone == [kind |-> "None", effect |-> 0]
CeQueued(e) == [kind |-> "Queued", effect |-> e]
CePlaying == [kind |-> "Playing", effect |-> 0]

is_none(ce) == ce.kind = "None"
is_queued(ce) == ce.kind = "Queued"
is_playing(ce) == ce.kind = "Playing"

\* ------------------------------------------------- contents of settings.json
PA == MkProfile("A", "Static", 0)
PB == MkProfile("B", "Lightning", 0)
PC == MkProfile("C", "Static", 1)
\* a second profile that is also named "A"
PA2 == MkProfile("A", "Lightning", 1)

FileABC == [profiles |-> <<PA, PB, PC>>, ui_state |-> PB,
            updates |-> [skip_version |-> FALSE, version_name |-> "v2"]]
\* two profiles of the list share the name "A"
FileDup == [profiles |-> <<PA, PB, PA2>>, ui_state |-> PB, updates |-> DefaultUpdates]
\* the last session's profile is not in the list
FileOne == [profiles |-> <<PC>>, ui_state |-> PA,
            updates |-> [skip_version |-> TRUE, version_name |-> "v2"]]

SettingsFiles == {FileABC, FileDup, FileOne}

\* a file that does not parse (or is missing)
Corrupt == [profiles |-> <<>>, ui_state |-> DefaultProfile,
            updates |-> [skip_version |-> FALSE, version_name |-> "corrupt"]]

FileContents == SettingsFiles \cup {Corrupt}

\* Settings::load_with_check and Settings::load_or_default
load_with_check(f) == IF f = Corrupt THEN DefaultSettings ELSE f
load_or_default(f) == IF f = Corrupt THEN DefaultSettings ELSE f

\* CliOutputType (Exit never reaches the GUI)
CliNoArgs == [type |-> "NoArgs", profile |-> DefaultProfile, effect |-> 0]
CliProfile == [type |-> "Profile", profile |-> MkProfile("C", "Lightning", 0), effect |-> 0]
CliCustom == [type |-> "Custom", profile |-> DefaultProfile, effect |-> 1]

\* the launches examined: settings.json as found, the CLI output, and the
\* arguments hide_window, unique_instance, tray_active of App::new, and whether
\* EffectManager::new succeeded
Launch(f, o, h, u, t, m) ==
    [file |-> f, output |-> o, hide_window |-> h, unique_instance |-> u,
     tray_active |-> t, manager_ok |-> m]

Launches ==
    { Launch(FileABC, CliNoArgs, FALSE, TRUE, TRUE, TRUE),
      Launch(FileABC, CliNoArgs, FALSE, TRUE, FALSE, TRUE),
      Launch(FileDup, CliNoArgs, FALSE, TRUE, TRUE, TRUE),
      Launch(FileOne, CliCustom, TRUE, TRUE, TRUE, TRUE),
      Launch(Corrupt, CliProfile, FALSE, FALSE, TRUE, FALSE),
      Launch(FileOne, CliCustom, FALSE, TRUE, FALSE, FALSE),
      Launch(Corrupt, CliNoArgs, FALSE, TRUE, TRUE, TRUE) }

\* the launches examined for the ways the process ends
ExitLaunches ==
    { Launch(FileOne, CliNoArgs, FALSE, TRUE, TRUE, TRUE),
      Launch(FileABC, CliNoArgs, FALSE, TRUE, FALSE, TRUE),
      Launch(Corrupt, CliProfile, FALSE, FALSE, TRUE, FALSE),
      Launch(FileOne, CliCustom, FALSE, TRUE, FALSE, FALSE) }

\* the launches examined for the hotkey listener: tray active or not
KeyLaunches ==
    { Launch(FileOne, CliNoArgs, FALSE, TRUE, TRUE, TRUE),
      Launch(FileOne, CliNoArgs, FALSE, TRUE, FALSE, TRUE) }

VARIABLES
    \* struct App
    unique_instance, show_window, window_open_rx, update_data, manager,
    profile, profile_changed, custom_effect, profile_list, global_rgb,
    \* the GuiMessage channel (tx, rx)
    channel,
    \* locals of the hotkey listener thread
    modifier_pressed, meta_pressed,
    \* ./settings.json and the number of times it was written
    settings_file, writes,
    \* the process: "running", "exited" (process::exit(0) or a closed window),
    \* "panicked" (unwrap of a failed save), and what ended it
    proc, exit_path,
    \* custom effects created so far, and those handed to the EffectManager
    effects_made, forwarded,
    \* what the last frame did: the message read and how many were pending
    \* when it was read, the App as cycle_profiles
    \* left it, the custom effect assignments, the EffectManager calls, the
    \* flag and the custom effect as step 3 found them
    tick_log

vars == <<unique_instance, show_window, window_open_rx, update_data, manager,
          profile, profile_changed, custom_effect, profile_list, global_rgb,
          channel, modifier_pressed, meta_pressed, settings_file, writes, proc, exit_path, effects_made, forwarded, tick_log>>

Snapshot(p, l, c, ce) ==
    [profile |-> p, profile_list |-> l, profile_changed |-> c, custom_effect |-> ce]
NoSnapshot == Snapshot(DefaultProfile, <<>>, FALSE, CeNone)

EmptyLog == [msg |-> "none", pending |-> 0, step1 |-> NoSnapshot, edges |-> <<>>,
             calls |-> <<>>, changed |-> FALSE, ce3 |-> CeNone]

\* the state as one record, so that a frame is a composition of its steps
State ==
    [unique_instance |-> unique_instance, show_window |-> show_window,
     window_open_rx |-> window_open_rx, update_data |-> update_data,
     manager |-> manager, profile |-> profile, profile_changed |-> profile_changed,
     custom_effect |-> custom_effect, profile_list |-> profile_list,
     global_rgb |-> global_rgb, channel |-> channel,
     settings_file |-> settings_file, writes |-> writes, proc |-> proc,
     exit_path |-> exit_path, effects_made |-> effects_made,
     forwarded |-> forwarded, tick_log |-> tick_log]

Install(s) ==
    /\ unique_instance' = s.unique_instance
    /\ show_window' = s.show_window
    /\ window_open_rx' = s.window_open_rx
    /\ update_data' = s.update_data
    /\ manager' = s.manager
    /\ profile' = s.profile
    /\ profile_changed' = s.profile_changed
    /\ custom_effect' = s.custom_effect
    /\ profile_list' = s.profile_list
    /\ global_rgb' = s.global_rgb
    /\ channel' = s.channel
    /\ settings_file' = s.settings_file
    /\ writes' = s.writes
    /\ proc' = s.proc
    /\ exit_path' = s.exit_path
    /\ effects_made' = s.effects_made
    /\ forwarded' = s.forwarded
    /\ tick_log' = s.tick_log

\* App::new followed by App::init
InitFrom(launches) ==
    \E l \in launches :
        LET settings == load_with_check(l.file)
            output == l.output
        IN
        /\ settings_file = l.file
        /\ unique_instance = l.unique_instance
        /\ show_window = ~l.hide_window
        /\ window_open_rx = l.tray_active
        /\ update_data = settings.updates
        /\ manager = l.manager_ok
        /\ profile = CASE output.type = "Profile" -> output.profile
                       [] output.type = "Custom" -> DefaultProfile
                       [] OTHER -> settings.ui_state
        /\ profile_changed = FALSE
        /\ custom_effect = IF output.type = "Custom" THEN CeQueued(output.effect) ELSE CeNone
        /\ profile_list = settings.profiles
        /\ global_rgb = 0
        /\ channel = <<>>
        /\ modifier_pressed = FALSE
        /\ meta_pressed = FALSE
        /\ writes = 0
        /\ proc = "running"
        /\ exit_path = "none"
        /\ effects_made = IF output.type = "Custom" THEN 1 ELSE 0
        /\ forwarded = <<>>
        /\ tick_log = EmptyLog

Init == InitFrom(Launches)
InitExit == InitFrom(ExitLaunches)
InitKeys == InitFrom(KeyLaunches)

\* ------------------------------------------------------------ App methods
\* self.custom_effect = to, remembered in the frame's log when it is a change
set_custom_effect(s, to, cause) ==
    [s EXCEPT !.custom_effect = to,
              !.tick_log.edges = IF s.custom_effect = to THEN @
                                 ELSE Append(@, [from |-> s.custom_effect, to |-> to,
                                                 cause |-> cause])]

\* profiles.iter().enumerate().find(|(_, p)| &p.name == name): first match, 0 if none
find_by_name(profiles, name) ==
    LET found == {i \in 1..Len(profiles) : profiles[i].name = name}
    IN IF found = {} THEN 0 ELSE CHOOSE i \in found : \A j \in found : i <= j

\* cycle_profiles with the wrap-around left out: the last profile stays
cycle_profiles_no_wrap(s) ==
    LET len == Len(s.profile_list)
        i == find_by_name(s.profile_list, s.profile.name)
    IN IF i = 0 THEN s
       ELSE [s EXCEPT !.profile = IF i = len THEN s.profile_list[len]
                                  ELSE s.profile_list[i + 1],
                      !.profile_changed = TRUE]

\* cycle_profiles falling back to the first profile when the name is not found
cycle_profiles_fallback(s) ==
    LET len == Len(s.profile_list)
        i == find_by_name(s.profile_list, s.profile.name)
    IN IF i = 0
       THEN [s EXCEPT !.profile = IF len = 0 THEN @ ELSE s.profile_list[1],
                      !.profile_changed = TRUE]
       ELSE [s EXCEPT !.profile = IF i = len THEN s.profile_list[1]
                                  ELSE s.profile_list[i + 1],
                      !.profile_changed = TRUE]

\* App::cycle_profiles (indices are 1-based here)
cycle_profiles(s) ==
    LET len == Len(s.profile_list)
        i == find_by_name(s.profile_list, s.profile.name)
    IN IF i = 0 THEN s
       ELSE [s EXCEPT !.profile = IF i = len THEN s.profile_list[1]
                                  ELSE s.profile_list[i + 1],
                      !.profile_changed = TRUE]

\* Settings::save: all or nothing
save(s, settings, env) ==
    IF env.save_ok THEN [s EXCEPT !.settings_file = settings, !.writes = @ + 1]
    ELSE [s EXCEPT !.proc = "panicked"]

\* on_exit without settings.ui_state = take(&mut self.profile)
on_exit_stale_profile(s, env) ==
    LET loaded == load_or_default(env.found)
        settings == [loaded EXCEPT !.profiles = s.profile_list,
                                   !.updates = s.update_data]
        taken == [s EXCEPT !.profile_list = <<>>,
                           !.update_data = DefaultUpdates]
    IN save([taken EXCEPT !.settings_file = env.found], settings, env)

\* on_exit dropping the result of the save instead of unwrapping it
on_exit_ignore_error(s, env) ==
    LET loaded == load_or_default(env.found)
        settings == [loaded EXCEPT !.profiles = s.profile_list,
                                   !.ui_state = s.profile,
                                   !.updates = s.update_data]
        taken == [s EXCEPT !.profile_list = <<>>,
                           !.profile = DefaultProfile,
                           !.update_data = DefaultUpdates]
        r == save([taken EXCEPT !.settings_file = env.found], settings, env)
    IN [r EXCEPT !.proc = s.proc]

\* App::on_exit: reload the file, overwrite the three fields with the values
\* taken out of the App, save and unwrap
on_exit(s, env) ==
    LET loaded == load_or_default(env.found)
        settings == [loaded EXCEPT !.profiles = s.profile_list,
                                   !.ui_state = s.profile,
                                   !.updates = s.update_data]
        taken == [s EXCEPT !.profile_list = <<>>,
                           !.profile = DefaultProfile,
                           !.update_data = DefaultUpdates]
    IN save([taken EXCEPT !.settings_file = env.found], settings, env)

\* exit_app returning to its caller instead of ending the process
exit_app_returns(s, env) == on_exit(s, env)

\* App::exit_app: on_exit, then process::exit(0) unless the save panicked
exit_app(s, env) ==
    LET r == on_exit(s, env)
    IN IF r.proc = "panicked" THEN r ELSE [r EXCEPT !.proc = "exited"]

\* ------------------------------------------------- one frame: App::update
\* what the user does to the widgets during one frame: at most one event per
\* widget, each a record [widget, a, b]
Ev(w, a, b) == [widget |-> w, a |-> a, b |-> b]
EffectSeq == <<"Static", "Lightning">>

UiEvents ==
    {Ev("open_effect", f, 0) : f \in {0, 1}}
    \cup {Ev("skip_version", 0, 0), Ev("unique_ok", 0, 0), Ev("manager_ok", 0, 0)}
    \cup {Ev("zone", NumZones, c) : c \in Colors}
    \cup {Ev("global", 1, 0)}
    \cup {Ev("options", 0, 0), Ev("stop", 0, 0)}
    \cup {Ev("select_profile", i, 0) : i \in 1..3}
    \cup {Ev("select_effect", k, 0) : k \in 1..Len(EffectSeq)}

RECURSIVE UiUpTo(_)
UiUpTo(n) ==
    IF n = 0 THEN {{}}
    ELSE LET less == UiUpTo(n - 1)
         IN less \cup {U \cup {e} : U \in less,
                                     e \in {x \in UiEvents : TRUE}}

UiInputs ==
    {U \in UiUpTo(MaxUiEvents) : \A e1, e2 \in U : e1.widget = e2.widget => e1 = e2}

Has(ui, w) == \E e \in ui : e.widget = w
Get(ui, w) == CHOOSE e \in ui : e.widget = w

\* step 1 reading the message sent last instead of the one sent first
drain_latest(s, env) ==
    IF s.window_open_rx /\ s.channel # <<>>
    THEN LET message == s.channel[Len(s.channel)]
             t == [s EXCEPT !.channel = SubSeq(@, 1, Len(@) - 1),
                            !.tick_log.msg = message,
                            !.tick_log.pending = Len(s.channel)]
         IN CASE message = "ShowWindow" -> [t EXCEPT !.show_window = TRUE]
              [] message = "CycleProfiles" ->
                    LET r == cycle_profiles(t)
                    IN [r EXCEPT !.tick_log.step1 =
                                   Snapshot(r.profile, r.profile_list,
                                            r.profile_changed, r.custom_effect)]
              [] OTHER -> exit_app([t EXCEPT !.exit_path = "quit"], env)
    ELSE s

\* step 1: if let Some(rx) = &self.window_open_rx { if let Ok(message) = rx.try_recv() ..
drain(s, env) ==
    IF s.window_open_rx /\ s.channel # <<>>
    THEN LET message == Head(s.channel)
             t == [s EXCEPT !.channel = Tail(@), !.tick_log.msg = message,
                            !.tick_log.pending = Len(s.channel)]
         IN CASE message = "ShowWindow" -> [t EXCEPT !.show_window = TRUE]
              [] message = "CycleProfiles" ->
                    LET r == cycle_profiles(t)
                    IN [r EXCEPT !.tick_log.step1 =
                                   Snapshot(r.profile, r.profile_list,
                                            r.profile_changed, r.custom_effect)]
              [] OTHER -> exit_app([t EXCEPT !.exit_path = "quit"], env)
    ELSE s

\* modals::update_available: the user may tick "skip this version"
update_available(s, ui) ==
    IF ~s.update_data.skip_version /\ s.update_data.version_name # "None"
       /\ Has(ui, "skip_version")
    THEN [s EXCEPT !.update_data.skip_version = TRUE]
    ELSE s

\* if !self.unique_instance && modals::unique_instance(ctx) { self.exit_app() }
unique_instance_modal(s, ui, env) ==
    IF ~s.unique_instance /\ Has(ui, "unique_ok")
    THEN exit_app([s EXCEPT !.exit_path = "unique"], env)
    ELSE s

\* if self.manager.is_none() && modals::manager_error(ctx) { self.exit_app() }
manager_error_modal(s, ui, env) ==
    IF ~s.manager /\ Has(ui, "manager_ok")
    THEN exit_app([s EXCEPT !.exit_path = "manager"], env)
    ELSE s

\* menu_bar.show: opening a custom effect file queues it
menu_bar_show(s, ui) ==
    IF Has(ui, "open_effect") /\ is_none(s.custom_effect) /\ s.effects_made < MaxEffects
    THEN LET e == s.effects_made + 1
             t == set_custom_effect([s EXCEPT !.effects_made = e], CeQueued(e), "queue")
         IN [t EXCEPT !.profile_changed = @ \/ (Get(ui, "open_effect").a = 1)]
    ELSE s

\* the four zone colour buttons and the global colour button, inside
\* ui.set_enabled(takes_color_array() && custom_effect.is_none())
color_edits(s, ui) ==
    IF takes_color_array(s.profile.effect) /\ is_none(s.custom_effect)
    THEN LET z == IF Has(ui, "zone") THEN Get(ui, "zone") ELSE Ev("zone", 0, 0)
             zoned == IF z.a # 0 /\ s.profile.rgb_zones[z.a] # z.b
                      THEN [s EXCEPT !.profile.rgb_zones[z.a] = z.b,
                                     !.profile_changed = TRUE]
                      ELSE s
         IN IF Has(ui, "global") /\ Get(ui, "global").a # zoned.global_rgb
            THEN [zoned EXCEPT !.global_rgb = Get(ui, "global").a,
                               !.profile.rgb_zones = Zones(Get(ui, "global").a),
                               !.profile_changed = TRUE]
            ELSE zoned
    ELSE s

\* effect_options.show inside ui.set_enabled(custom_effect.is_none())
effect_options_show(s, ui) ==
    IF is_none(s.custom_effect) /\ Has(ui, "options")
    THEN [s EXCEPT !.profile_changed = TRUE]
    ELSE s

\* profile_list.show: the user picks a profile of the list
profile_list_show(s, ui) ==
    IF Has(ui, "select_profile") /\ Get(ui, "select_profile").a <= Len(s.profile_list)
    THEN [s EXCEPT !.profile = s.profile_list[Get(ui, "select_profile").a],
                   !.profile_changed = TRUE]
    ELSE s

\* the stop button clearing the custom effect without setting the flag
stop_button_no_flag(s, ui) ==
    IF is_playing(s.custom_effect) /\ Has(ui, "stop")
    THEN set_custom_effect(s, CeNone, "stop")
    ELSE s

\* if self.custom_effect.is_playing() && ui.button("Stop custom effect").clicked()
stop_button(s, ui) ==
    IF is_playing(s.custom_effect) /\ Has(ui, "stop")
    THEN [set_custom_effect(s, CeNone, "stop") EXCEPT !.profile_changed = TRUE]
    ELSE s

\* the effect list telling the EffectManager at once, ahead of step 3
effect_list_eager(s, ui) ==
    IF Has(ui, "select_effect")
    THEN LET t == [set_custom_effect(s, CeNone, "clear")
                     EXCEPT !.profile.effect = EffectSeq[Get(ui, "select_effect").a],
                            !.profile_changed = TRUE]
         IN IF t.manager
            THEN [t EXCEPT !.tick_log.calls =
                             Append(@, [call |-> "set_profile", profile |-> t.profile,
                                        effect |-> 0])]
            ELSE t
    ELSE s

\* for val in Effects::iter() { if ui.selectable_value(..).clicked() { .. } }
effect_list(s, ui) ==
    IF Has(ui, "select_effect")
    THEN [set_custom_effect(s, CeNone, "clear")
            EXCEPT !.profile.effect = EffectSeq[Get(ui, "select_effect").a],
                   !.profile_changed = TRUE]
    ELSE s

\* set_profile(self.profile.clone()) and manager.custom_effect(effect)
call_set_profile(s) ==
    [s EXCEPT !.tick_log.calls =
                Append(@, [call |-> "set_profile", profile |-> s.profile, effect |-> 0])]

call_custom_effect(s, e) ==
    [s EXCEPT !.tick_log.calls =
                Append(@, [call |-> "custom_effect", profile |-> DefaultProfile,
                           effect |-> e]),
              !.forwarded = Append(@, e)]

\* step 3 with mem::take in place of mem::replace(.., Playing)
commit_take(s) ==
    LET t == [s EXCEPT !.tick_log.changed = s.profile_changed,
                       !.tick_log.ce3 = s.custom_effect]
    IN IF t.profile_changed
       THEN LET u == IF t.manager
                     THEN IF is_none(t.custom_effect) THEN call_set_profile(t)
                          ELSE IF is_queued(t.custom_effect)
                          THEN call_custom_effect(set_custom_effect(t, CeNone, "commit"),
                                                  t.custom_effect.effect)
                          ELSE t
                     ELSE t
            IN [u EXCEPT !.profile_changed = FALSE]
       ELSE t

\* step 3 moving to Playing from every state but Playing
commit_unchecked(s) ==
    LET t == [s EXCEPT !.tick_log.changed = s.profile_changed,
                       !.tick_log.ce3 = s.custom_effect]
    IN IF t.profile_changed
       THEN LET u == IF t.manager
                     THEN IF is_none(t.custom_effect)
                          THEN call_set_profile(set_custom_effect(t, CePlaying, "commit"))
                          ELSE IF is_queued(t.custom_effect)
                          THEN call_custom_effect(set_custom_effect(t, CePlaying, "commit"),
                                                  t.custom_effect.effect)
                          ELSE t
                     ELSE t
            IN [u EXCEPT !.profile_changed = FALSE]
       ELSE t

\* step 3 forwarding a clone of the queued effect and leaving it queued
commit_keep_queued(s) ==
    LET t == [s EXCEPT !.tick_log.changed = s.profile_changed,
                       !.tick_log.ce3 = s.custom_effect]
    IN IF t.profile_changed
       THEN LET u == IF t.manager
                     THEN IF is_none(t.custom_effect) THEN call_set_profile(t)
                          ELSE IF is_queued(t.custom_effect)
                          THEN call_custom_effect(t, t.custom_effect.effect)
                          ELSE t
                     ELSE t
            IN [u EXCEPT !.profile_changed = FALSE]
       ELSE t

\* step 3 clearing the flag only when the EffectManager exists
commit_clear_with_manager(s) ==
    LET t == [s EXCEPT !.tick_log.changed = s.profile_changed,
                       !.tick_log.ce3 = s.custom_effect]
    IN IF t.profile_changed /\ t.manager
       THEN LET u == IF is_none(t.custom_effect) THEN call_set_profile(t)
                     ELSE IF is_queued(t.custom_effect)
                     THEN call_custom_effect(set_custom_effect(t, CePlaying, "commit"),
                                             t.custom_effect.effect)
                     ELSE t
            IN [u EXCEPT !.profile_changed = FALSE]
       ELSE t

\* step 3 forwarding the profile in every state but Queued
commit_playing_forwards(s) ==
    LET t == [s EXCEPT !.tick_log.changed = s.profile_changed,
                       !.tick_log.ce3 = s.custom_effect]
    IN IF t.profile_changed
       THEN LET u == IF t.manager
                     THEN IF is_queued(t.custom_effect)
                          THEN call_custom_effect(set_custom_effect(t, CePlaying, "commit"),
                                                  t.custom_effect.effect)
                          ELSE call_set_profile(t)
                     ELSE t
            IN [u EXCEPT !.profile_changed = FALSE]
       ELSE t

\* step 3: if self.profile_changed { .. self.profile_changed = false }
commit(s) ==
    LET t == [s EXCEPT !.tick_log.changed = s.profile_changed,
                       !.tick_log.ce3 = s.custom_effect]
    IN IF t.profile_changed
       THEN LET u == IF t.manager
                     THEN IF is_none(t.custom_effect) THEN call_set_profile(t)
                          ELSE IF is_queued(t.custom_effect)
                          THEN LET state == t.custom_effect
                               IN call_custom_effect(
                                      set_custom_effect(t, CePlaying, "commit"),
                                      state.effect)
                          ELSE t
                     ELSE t
            IN [u EXCEPT !.profile_changed = FALSE]
       ELSE t

\* the menu bar, the central panel's widgets in source order, then step 3
frame_ui(s, ui) ==
    commit(effect_list(stop_button(profile_list_show(effect_options_show(
        color_edits(menu_bar_show(s, ui), ui), ui), ui), ui), ui))

\* a step of update runs only while the process is alive
Alive(s, r) == IF s.proc = "running" THEN r ELSE s

update(s0, ui, env) ==
    LET s1 == drain([s0 EXCEPT !.tick_log = EmptyLog], env)
        s3 == Alive(s1, unique_instance_modal(update_available(s1, ui), ui, env))
        s4 == Alive(s3, manager_error_modal(s3, ui, env))
    IN Alive(s4, frame_ui(s4, ui))

\* ------------------------------------------------------------------ actions
Running == proc = "running"

\* what on_exit meets: settings.json as it is by then (other programs may
\* have rewritten it) and whether the save succeeds
ExitEnvs == [found : {settings_file, Corrupt}, save_ok : BOOLEAN]
NoExit == [found |-> settings_file, save_ok |-> TRUE]

\* the frame may reach exit_app
MayExit(ui) ==
    \/ window_open_rx /\ channel # <<>> /\ Head(channel) = "Quit"
    \/ Has(ui, "unique_ok")
    \/ Has(ui, "manager_ok")

\* the widget is on screen and enabled when the frame starts
Offered(e) ==
    CASE e.widget = "unique_ok" -> ~unique_instance
      [] e.widget = "manager_ok" -> ~manager
      [] e.widget = "skip_version" ->
            ~update_data.skip_version /\ update_data.version_name # "None"
      [] e.widget = "stop" -> is_playing(custom_effect)
      [] e.widget = "select_profile" -> e.a <= Len(profile_list)
      [] e.widget = "open_effect" -> is_none(custom_effect) /\ effects_made < MaxEffects
      [] OTHER -> TRUE

\* the host calls App::update for one frame
Update ==
    /\ Running
    /\ \E ui \in UiInputs :
          /\ \A e \in ui : Offered(e)
          /\ \E env \in IF MayExit(ui) THEN ExitEnvs ELSE {NoExit} :
                Install(update(State, ui, env))
    /\ UNCHANGED <<modifier_pressed, meta_pressed>>

\* the listener's match with the two flags tested before they are updated
listen_check_first(modifier_was, meta_was, event) ==
    LET pressed == event.event_type = "KeyPress"
    IN [modifier_pressed |-> IF event.key = "AltGr" THEN pressed ELSE modifier_was,
        meta_pressed |-> IF event.key = "MetaLeft" THEN pressed ELSE meta_was,
        send |-> pressed /\ modifier_was /\ meta_was]

\* the body of the listener's loop for one event: match event.event_type
listen(modifier_was, meta_was, event) ==
    LET pressed == event.event_type = "KeyPress"
        modifier == IF event.key = "AltGr" THEN pressed ELSE modifier_was
        meta == IF event.key = "MetaLeft" THEN pressed ELSE meta_was
    IN [modifier_pressed |-> modifier, meta_pressed |-> meta,
        send |-> pressed /\ modifier /\ meta]

\* the listener thread takes one event from input_rx
Listen(event) ==
    LET r == listen(modifier_pressed, meta_pressed, event)
    IN /\ modifier_pressed' = r.modifier_pressed
       /\ meta_pressed' = r.meta_pressed
       /\ channel' = IF r.send THEN Append(channel, "CycleProfiles") ELSE channel

HotkeyListener ==
    /\ Running
    /\ manager
    /\ \E event \in KeyEvents : Listen(event)
    /\ Len(channel') <= MaxChannel
    /\ UNCHANGED <<unique_instance, show_window, window_open_rx, update_data, manager,
                   profile, profile_changed, custom_effect, profile_list, global_rgb,
                   settings_file, writes, proc, exit_path, effects_made,
                   forwarded, tick_log>>

\* the tray menu sends ShowWindow or Quit
TraySend ==
    /\ Running
    /\ window_open_rx
    /\ Len(channel) < MaxChannel
    /\ \E m \in {"ShowWindow", "Quit"} : channel' = Append(channel, m)
    /\ UNCHANGED <<unique_instance, show_window, window_open_rx, update_data, manager,
                   profile, profile_changed, custom_effect, profile_list, global_rgb,
                   modifier_pressed, meta_pressed, settings_file, writes,
                   proc, exit_path, effects_made, forwarded, tick_log>>

\* on_close_event answering true whether or not the tray holds the receiver
on_close_event_terminal(s, env) ==
    LET r == on_exit([s EXCEPT !.exit_path = "close"], env)
    IN IF r.proc = "panicked" THEN r ELSE [r EXCEPT !.proc = "exited"]

\* App::on_close_event, and App::on_exit when the close is final
on_close_event(s, env) ==
    IF s.window_open_rx
    THEN [s EXCEPT !.show_window = FALSE]
    ELSE LET r == on_exit([s EXCEPT !.exit_path = "close"], env)
         IN IF r.proc = "panicked" THEN r ELSE [r EXCEPT !.proc = "exited"]

WindowClose ==
    /\ Running
    /\ \E env \in IF window_open_rx THEN {NoExit} ELSE ExitEnvs :
          Install(on_close_event(State, env))
    /\ UNCHANGED <<modifier_pressed, meta_pressed>>

\* the frames and the keyboard
Next == Update \/ HotkeyListener

Spec == Init /\ [][Next]_vars

\* the frames, the tray and the window: the ways the process ends
NextExit == Update \/ TraySend \/ WindowClose

SpecExit == InitExit /\ [][NextExit]_vars

\* the frames and the keyboard, for the listener's behaviour
SpecKeys == InitKeys /\ [][Next]_vars

\* ------------------------------------------------------------------ claims
\* cycle_profiles applied n times
RECURSIVE CycleN(_, _)
CycleN(s, n) == IF n = 0 THEN s ELSE CycleN(cycle_profiles(s), n - 1)

\* this step is a frame that read a CycleProfiles message
CycleActed ==
    /\ window_open_rx
    /\ channel # <<>>
    /\ Head(channel) = "CycleProfiles"
    /\ channel' = Tail(channel)
    /\ tick_log'.msg = "CycleProfiles"

\* i is the first index whose profile has the active profile's name
FirstMatch(i) ==
    /\ profile_list[i].name = profile.name
    /\ \A j \in 1..(i - 1) : profile_list[j].name # profile.name

NoMatch == \A i \in 1..Len(profile_list) : profile_list[i].name # profile.name

\* C1: for a list of n >= 1 profiles (names may repeat) and an active profile
\* that is an element of the list, n applications of cycle_profiles leave the
\* active profile equal to the original one.
C1_CycleNReturns ==
    (Len(profile_list) >= 1 /\ \E i \in 1..Len(profile_list) : profile_list[i] = profile)
        => CycleN(State, Len(profile_list)).profile = profile

\* C2: a frame that acts on CycleProfiles while the active name first matches
\* the list at index i makes the entry after i (the first entry when i is the
\* last index) the active profile and sets profile_changed; with the list
\* [A, B, C], B becomes C and C becomes A.
C2_CycleAdvances ==
    [][ /\ \A i \in 1..Len(profile_list) :
              (CycleActed /\ FirstMatch(i)) =>
                  /\ tick_log'.step1.profile =
                         profile_list[IF i = Len(profile_list) THEN 1 ELSE i + 1]
                  /\ tick_log'.step1.profile_changed
                  /\ proc' = "running" => tick_log'.changed
        /\ (CycleActed /\ profile_list = <<PA, PB, PC>> /\ profile = PB)
              => tick_log'.step1.profile = PC
        /\ (CycleActed /\ profile_list = <<PA, PB, PC>> /\ profile = PC)
              => tick_log'.step1.profile = PA ]_vars

\* a frame acted on CycleProfiles at the last index of [A, B, C] and the
\* EffectManager was given the first profile
C2_Witness ==
    /\ tick_log.msg = "CycleProfiles"
    /\ profile_list = <<PA, PB, PC>>
    /\ tick_log.step1.profile = PA
    /\ tick_log.calls = <<[call |-> "set_profile", profile |-> PA, effect |-> 0]>>

\* C3: a frame that acts on CycleProfiles while no profile of the list (an
\* empty list included) has the active profile's name leaves the active
\* profile, the list, profile_changed and the custom effect state as they
\* were, and the process does not fail.
C3_CycleNoMatchNoOp ==
    [][ (CycleActed /\ NoMatch) =>
            /\ tick_log'.step1 =
                   Snapshot(profile, profile_list, profile_changed, custom_effect)
            /\ proc' # "panicked" ]_vars

\* a frame acted on CycleProfiles with an empty profile list
C3_Witness ==
    /\ tick_log.msg = "CycleProfiles"
    /\ profile_list = <<>>
    /\ tick_log.step1.profile = profile
    /\ ~tick_log.changed
    /\ proc = "running"

\* the kinds of the k-th custom effect assignment of the last frame
EdgeKinds(k) == <<tick_log.edges[k].from.kind, tick_log.edges[k].to.kind>>
Edges == 1..Len(tick_log.edges)

\* the assignments logged by a frame lead from the custom effect state
\* before the frame to the one after it
EdgesChain ==
    custom_effect' # custom_effect =>
        LET e == tick_log'.edges
        IN /\ e # <<>>
           /\ e[1].from = custom_effect
           /\ e[Len(e)].to = custom_effect'
           /\ \A k \in 1..(Len(e) - 1) : e[k].to = e[k + 1].from

\* C4 as stated: every change of the custom effect state is one of
\* None -> Queued, Queued -> Playing, Playing -> None.
C4_OnlyThreeEdges ==
    \A k \in Edges :
        EdgeKinds(k) \in {<<"None", "Queued">>, <<"Queued", "Playing">>,
                          <<"Playing", "None">>}

\* C4 as amended: every change of the custom effect state is one of
\* None -> Queued, Queued -> Playing, Playing -> None, or Queued -> None, the
\* last only by the selection of a built-in effect; None -> Playing and
\* Playing -> Queued never occur.
C4_EdgesWithClear ==
    [][ /\ EdgesChain
        /\ \A k \in 1..Len(tick_log'.edges) :
              LET e == tick_log'.edges[k]
              IN \/ <<e.from.kind, e.to.kind>> \in
                       {<<"None", "Queued">>, <<"Queued", "Playing">>,
                        <<"Playing", "None">>}
                 \/ /\ <<e.from.kind, e.to.kind>> = <<"Queued", "None">>
                    /\ e.cause = "clear" ]_vars

\* a frame in which a built-in effect was selected while a custom effect was
\* queued
C4_Witness ==
    /\ tick_log.edges = <<[from |-> CeQueued(1), to |-> CeNone, cause |-> "clear"]>>
    /\ custom_effect = CeNone

\* C5: the custom effect state becomes Playing only from Queued, and it goes
\* from Queued or Playing to None only by the stop of a playing effect or by
\* the selection of a built-in effect.
C5_PlayingOnlyFromQueued ==
    \A k \in Edges :
        LET e == tick_log.edges[k]
        IN /\ e.to.kind = "Playing" => e.from.kind = "Queued"
           /\ (e.from.kind # "None" /\ e.to.kind = "None") =>
                  \/ e.cause = "stop" /\ e.from.kind = "Playing"
                  \/ e.cause = "clear"

\* a frame that queued an effect and committed it: None, Queued, Playing
C5_Witness ==
    /\ Len(tick_log.edges) = 2
    /\ EdgeKinds(1) = <<"None", "Queued">>
    /\ EdgeKinds(2) = <<"Queued", "Playing">>
    /\ custom_effect = CePlaying

\* C6: when step 3 runs with profile_changed set, an EffectManager and the
\* state Queued(E), the manager receives exactly one call in that frame, the
\* custom effect E, and the state is Playing afterwards; no effect is ever
\* handed to the manager twice.
C6_CommitForwardsOnce ==
    /\ (tick_log.changed /\ manager /\ is_queued(tick_log.ce3)) =>
          /\ tick_log.calls = <<[call |-> "custom_effect", profile |-> DefaultProfile,
                                 effect |-> tick_log.ce3.effect]>>
          /\ custom_effect = CePlaying
    /\ \A i, j \in 1..Len(forwarded) : i # j => forwarded[i] # forwarded[j]

\* step 3 found a queued effect and the manager now has it
C6_Witness ==
    /\ tick_log.changed
    /\ manager
    /\ tick_log.ce3 = CeQueued(1)
    /\ forwarded = <<1>>
    /\ custom_effect = CePlaying

\* C7: whatever ends the process (Quit, a confirmed modal, a final window
\* close), settings.json is written at most once.
C7_AtMostOneWrite == writes <= 1

\* the backend error modal was confirmed and the process ended after one write
C7_Witness ==
    /\ proc = "exited"
    /\ exit_path = "manager"
    /\ ~manager
    /\ writes = 1

\* C8: when a Quit message or a window close without tray ends the process,
\* the settings were written once in that step, and the file holds the profile
\* list, the active profile and the updates that were in memory when the
\* shutdown began, whatever the file held before.
C8_ExitPersistsMemory ==
    [][ (proc = "running" /\ proc' = "exited" /\ exit_path' \in {"quit", "close"}) =>
            /\ writes' = writes + 1
            /\ settings_file' = [profiles |-> profile_list, ui_state |-> profile,
                                 updates |-> update_data] ]_vars

\* Quit ended a session in which the user had picked profile C; the file on
\* disk named another profile
C8_Witness ==
    /\ proc = "exited"
    /\ exit_path = "quit"
    /\ writes = 1
    /\ settings_file = [profiles |-> <<PC>>, ui_state |-> PC,
                        updates |-> FileOne.updates]

\* what the listener does with event e in the current state
Heard(e) == listen(modifier_pressed, meta_pressed, e)
BothHeld == modifier_pressed /\ meta_pressed

\* C9 as stated: a CycleProfiles is emitted only by the press that completes
\* the chord; while both modifiers stay held no further one is emitted.
C9_OnePerPressPair ==
    \A e \in KeyEvents : Heard(e).send => ~BothHeld

\* what C9_PressEmits says of one state
C9_Emits ==
    \A e \in KeyEvents :
        LET r == Heard(e)
            press == e.event_type = "KeyPress"
            both_after == r.modifier_pressed /\ r.meta_pressed
        IN /\ (press /\ ~BothHeld /\ both_after) => r.send
           /\ (press /\ BothHeld) => r.send
           /\ ~press => ~r.send
           /\ ~both_after => ~r.send

\* C9 as amended: from both modifiers released, the press that completes the
\* chord emits exactly one CycleProfiles; while both stay held every further
\* key press emits one more; a release emits none, and after a release none is
\* emitted until the chord is complete again, which emits exactly one.
C9_PressEmits ==
    [][ /\ C9_Emits
        /\ C9_Emits'
        /\ Len(channel') > Len(channel) =>
              /\ channel' = Append(channel, "CycleProfiles")
              /\ modifier_pressed' /\ meta_pressed' ]_vars

\* both modifiers are held and two CycleProfiles were emitted and not read
C9_Witness ==
    /\ BothHeld
    /\ ~window_open_rx
    /\ channel = <<"CycleProfiles", "CycleProfiles">>

\* C10: an event of a key other than the two modifiers changes neither flag
\* and sends no message, in every state of the listener.
C10_OtherKeysIgnored ==
    \A e \in KeyEvents :
        e.key \notin WatchedKeys =>
            LET r == Heard(e)
            IN /\ r.modifier_pressed = modifier_pressed
               /\ r.meta_pressed = meta_pressed
               /\ ~r.send

\* C11 as stated: a tick removes at most one message, and when more than one
\* is pending the message it acts on is the one sent last.
C11_ActsOnNewest ==
    [][ /\ Len(channel') >= Len(channel) - 1
        /\ (Len(channel') < Len(channel) /\ Len(channel) > 1) =>
              tick_log'.msg = channel[Len(channel)] ]_vars

\* C11 as amended: a tick removes at most one message; the message it removes
\* and acts on is the one sent first, and the later ones stay pending in order.
C11_DrainsOldest ==
    [][ /\ Len(channel') >= Len(channel) - 1
        /\ Len(channel') < Len(channel) =>
              /\ window_open_rx
              /\ channel' = Tail(channel)
              /\ tick_log'.msg = Head(channel)
              /\ tick_log'.pending = Len(channel) ]_vars

\* the last tick found ShowWindow and Quit pending, acted on ShowWindow and
\* left Quit pending
C11_Witness ==
    /\ tick_log.pending = 2
    /\ tick_log.msg = "ShowWindow"
    /\ show_window
    /\ channel # <<>>
    /\ Head(channel) = "Quit"
    /\ proc = "running"

\* C12: with or without the tray, every message sent is acted on by exactly one
\* tick, in the order sent. Step 1 is the first thing every tick does and ticks
\* keep coming, so this says: whenever a message is pending while the process
\* runs, the next tick takes the message sent first off the channel and acts
\* on it, whatever the user does in that tick.
C12_EveryMessageActedOn ==
    (channel # <<>> /\ proc = "running") =>
        \A env \in ExitEnvs :
            LET r == update(State, {}, env)
            IN /\ r.channel = Tail(channel)
               /\ r.tick_log.msg = Head(channel)

\* C13: with the tray active a window-close request only hides the window: the
\* process keeps running and nothing is written; the window becomes visible
\* again only in a tick that acts on ShowWindow. Without the tray a
\* window-close request ends the process.
C13_CloseHidesOrEnds ==
    [][ /\ proc = "running" =>
              \A env \in ExitEnvs :
                  LET r == on_close_event(State, env)
                  IN IF window_open_rx
                     THEN r = [State EXCEPT !.show_window = FALSE]
                     ELSE r.proc # "running" /\ r.exit_path = "close"
        /\ (show_window /\ ~show_window') =>
              /\ window_open_rx
              /\ proc' = "running"
              /\ writes' = writes
              /\ settings_file' = settings_file
        /\ (~show_window /\ show_window') => tick_log'.msg = "ShowWindow"
        /\ exit_path' = "close" => ~window_open_rx /\ proc' # "running" ]_vars

\* with the tray active the window was shown by a ShowWindow message and then
\* hidden by a close request, and the process runs on with nothing written
C13_Witness ==
    /\ window_open_rx
    /\ ~show_window
    /\ tick_log.msg = "ShowWindow"
    /\ proc = "running"
    /\ writes = 0

\* C14: between ticks, while the process runs, the "profile changed" flag is
\* false, whatever the custom effect state and with or without the
\* EffectManager.
C14_FlagClearBetweenTicks ==
    proc = "running" => ~profile_changed

\* without an EffectManager the last tick found the flag set at step 3 and
\* cleared it
C14_Witness ==
    /\ ~manager
    /\ tick_log.changed
    /\ ~profile_changed
    /\ proc = "running"

\* C15: a tick makes at most one call to the EffectManager (one set_profile or
\* one custom_effect), and a set_profile call carries the profile as the tick
\* leaves it, after the message and every widget have changed it.
C15_AtMostOneCall ==
    /\ Len(tick_log.calls) <= 1
    /\ \A i \in DOMAIN tick_log.calls :
          tick_log.calls[i].call = "set_profile" =>
              tick_log.calls[i].profile = profile

\* the last tick cycled the profile, a widget then changed the profile again,
\* and the one set_profile call carried the final profile
C15_Witness ==
    /\ tick_log.msg = "CycleProfiles"
    /\ tick_log.step1.profile_changed
    /\ tick_log.step1.profile # profile
    /\ Len(tick_log.calls) = 1
    /\ tick_log.calls[1].call = "set_profile"
    /\ tick_log.calls[1].profile = profile

\* the controls that change the effect: zone colours, global colour, effect
\* options and the list of built-in effects
EffectControls == {"zone", "global", "options", "select_effect"}

\* C16: when the EffectManager could not be constructed, in every state no
\* effect-changing control changes the active profile or sets the "profile
\* changed" flag, and no hotkey listener runs: the key flags never change and
\* nothing is sent.
C16_ControlsDisabledWithoutManager ==
    (~manager /\ proc = "running") =>
        /\ \A e \in UiEvents :
              e.widget \in EffectControls =>
                  LET r == update(State, {e}, NoExit)
                  IN /\ r.profile = profile
                     /\ ~r.tick_log.changed
        /\ ~modifier_pressed
        /\ ~meta_pressed
        /\ channel = <<>>

\* C17: on every shutdown path (Quit, a confirmed modal, a final window close)
\* a failed save ends the process in a panic with nothing written, and the
\* process ends with exit status 0 only in a step that wrote the file.
C17_FailedSaveIsError ==
    [][ /\ proc = "running" =>
              \A env \in ExitEnvs :
                  ~env.save_ok =>
                      /\ exit_app(State, env).proc = "panicked"
                      /\ exit_app(State, env).writes = writes
                      /\ ~window_open_rx =>
                            on_close_event(State, env).proc = "panicked"
        /\ proc' = "exited" => writes' = writes + 1
        /\ proc' = "panicked" => writes' = writes ]_vars

\* the save failed after a Quit message and the process panicked
C17_Witness ==
    /\ proc = "panicked"
    /\ exit_path = "quit"
    /\ tick_log.msg = "Quit"
    /\ writes = 0

\* C18: a tick in which the custom effect state goes back to None (the stop
\* button while Playing, a built-in effect selected while Queued or Playing)
\* finds the "profile changed" flag set at step 3 and, when there is an
\* EffectManager, makes exactly one call, set_profile with the current profile.
C18_ClearForwardsProfile ==
    \A k \in Edges :
        LET e == tick_log.edges[k]
        IN (e.from.kind # "None" /\ e.to.kind = "None") =>
               /\ e.cause \in {"stop", "clear"}
               /\ tick_log.changed
               /\ is_none(tick_log.ce3)
               /\ manager =>
                     tick_log.calls = <<[call |-> "set_profile", profile |-> profile,
                                         effect |-> 0]>>

\* the stop button ended a playing effect and the profile went to the manager
C18_Witness ==
    /\ manager
    /\ Len(tick_log.edges) = 1
    /\ EdgeKinds(1) = <<"Playing", "None">>
    /\ tick_log.edges[1].cause = "stop"
    /\ tick_log.calls = <<[call |-> "set_profile", profile |-> profile, effect |-> 0]>>

\* C19: a tick whose step 3 finds the custom effect Playing makes no call to
\* the EffectManager, even with the "profile changed" flag set, leaves the
\* effect playing and the flag cleared; set_profile is called only by a tick
\* whose step 3 finds the state None.
C19_PlayingMakesNoCall ==
    /\ is_playing(tick_log.ce3) =>
          /\ tick_log.calls = <<>>
          /\ custom_effect = CePlaying
          /\ proc = "running" => ~profile_changed
    /\ \A i \in DOMAIN tick_log.calls :
          tick_log.calls[i].call = "set_profile" => is_none(tick_log.ce3)

\* while an effect was playing a CycleProfiles message changed the profile and
\* set the flag; step 3 made no call and cleared the flag
C19_Witness ==
    /\ is_playing(tick_log.ce3)
    /\ tick_log.msg = "CycleProfiles"
    /\ tick_log.step1.profile_changed
    /\ tick_log.step1.profile = profile
    /\ tick_log.changed
    /\ tick_log.calls = <<>>
    /\ ~profile_changed

\* n ticks in a row with no widget touched
RECURSIVE IdleTicks(_, _)
IdleTicks(s, n) ==
    IF n = 0 \/ s.proc # "running" THEN s
    ELSE IdleTicks(update(s, {}, NoExit), n - 1)

\* C20: launched with a custom effect E and an EffectManager, the state is
\* Queued(E) and, with no widget touched and no message sent, some tick makes
\* it Playing and hands E to the manager.
C20_LaunchedEffectPlays ==
    (Init /\ manager /\ effects_made = 1) =>
        /\ custom_effect = CeQueued(1)
        /\ \E n \in 1..MaxIdleTicks :
              LET r == IdleTicks(State, n)
              IN /\ is_playing(r.custom_effect)
                 /\ r.forwarded = <<1>>

====
